---- MODULE Spec2Model ----
(***************************************************************************)
(* Model of the SOWS geographic summary scripts:                           *)
(*   src/SOWS_geographic_summary.py  get_sows_stats and its caller         *)
(*   src/batch_export_to_csvs.py     the batch CSV exporter                *)
(*                                                                         *)
(* The scripts sequence calls into the arcpy geoprocessing engine.  The    *)
(* workspace (geodatabase) is a function from layer names to layers; each  *)
(* engine tool is an operator on layers, and each call of the script is    *)
(* one action.  Geometry is one-dimensional: x runs along the coast in     *)
(* kilometres, y is the offset from the x axis in coordinate units         *)
(* (metres).  Summary regions are strips lo < x < hi, shorelines are       *)
(* segments [a, b] at a fixed y, structures are point-like footprints.     *)
(***************************************************************************)
EXTENDS Integers, Sequences, FiniteSets, TLC

VARIABLES
    ws,         \* arcpy.env.workspace: layer name -> layer
    locked,     \* derived layer names another application holds a lock on
    args,       \* the three arguments of get_sows_stats
    pc,         \* position in get_sows_stats
    idx,        \* loop index of the two field loops
    poly_name,  \* local poly_name
    out,        \* what has been printed
    calls,      \* the engine calls made inside the try block, in order
    run,        \* "first" or "second" invocation with the same arguments
    prev,       \* workspace, outcome and output at the end of the first invocation
    gdb,        \* batch exporter: the deliverables geodatabase
    folder,     \* batch exporter: the output folder (exists, files)
    folder0,    \* batch exporter: the output folder as the script found it
    bpc,        \* batch exporter: position in the script
    items,      \* batch exporter: feature_classes + tables still to export
    exported,   \* batch exporter: TableToTable calls made, in order
    bout        \* batch exporter: what has been printed

pvars == <<ws, locked, args, pc, idx, poly_name, out, calls, run, prev>>
bvars == <<gdb, folder, folder0, bpc, items, exported, bout>>
vars == <<ws, locked, args, pc, idx, poly_name, out, calls, run, prev,
          gdb, folder, folder0, bpc, items, exported, bout>>

-----------------------------------------------------------------------------
(* Bounds of the model *)

NumStrips == 2      \* candidate summary regions
MaxSows == 2        \* structures in the SOWS layer
MaxDatasets == 2    \* feature classes, and tables, in the deliverables gdb

-----------------------------------------------------------------------------
(* Attribute values: exact rationals <<n, d>> with d > 0; Null is <<0, 0>> *)

Null == <<0, 0>>
IntV(n) == <<n, 1>>
IsNull(v) == v[2] = 0

Abs(n) == IF n < 0 THEN -n ELSE n
Min2(a, b) == IF a <= b THEN a ELSE b
Max2(a, b) == IF a >= b THEN a ELSE b

RECURSIVE GCD(_, _)
GCD(a, b) == IF b = 0 THEN a ELSE GCD(b, a % b)

Frac(n, d) == LET g == GCD(Abs(n), d) IN <<n \div g, d \div g>>
FAdd(a, b) == Frac(a[1] * b[2] + b[1] * a[2], a[2] * b[2])
FSub(a, b) == Frac(a[1] * b[2] - b[1] * a[2], a[2] * b[2])
FMul(a, b) == Frac(a[1] * b[1], a[2] * b[2])
FLess(a, b) == a[1] * b[2] < b[1] * a[2]

RECURSIVE FSum(_)
FSum(s) == IF s = <<>> THEN IntV(0) ELSE FAdd(Head(s), FSum(Tail(s)))

RECURSIVE FMin(_)
FMin(s) == IF Len(s) = 1 THEN s[1]
           ELSE LET m == FMin(Tail(s)) IN IF FLess(m, s[1]) THEN m ELSE s[1]

RECURSIVE FMax(_)
FMax(s) == IF Len(s) = 1 THEN s[1]
           ELSE LET m == FMax(Tail(s)) IN IF FLess(s[1], m) THEN m ELSE s[1]

FMean(s) == LET t == FSum(s) IN Frac(t[1], t[2] * Len(s))

\* The sample variance.  A std_* field holds the standard deviation; the
\* model carries its square, the square root not being rational.
FVar(s) ==
    IF Len(s) < 2 THEN Null
    ELSE LET m == FMean(s)
             sq == [i \in 1..Len(s) |-> FMul(FSub(s[i], m), FSub(s[i], m))]
             t == FSum(sq)
         IN Frac(t[1], t[2] * (Len(s) - 1))

\* One statistic of SummarizeWithin over the contributed values.
Statistic(stat, s) ==
    IF s = <<>> THEN Null
    ELSE CASE stat = "Mean" -> FMean(s)
           [] stat = "Sum" -> FSum(s)
           [] stat = "Min" -> FMin(s)
           [] stat = "Max" -> FMax(s)
           [] stat = "Stddev" -> FVar(s)

StatPrefix(stat) ==
    CASE stat = "Mean" -> "mean"
      [] stat = "Sum" -> "sum"
      [] stat = "Min" -> "min"
      [] stat = "Max" -> "max"
      [] stat = "Stddev" -> "std"

-----------------------------------------------------------------------------
(* Layers *)

NoFields == [n \in {} |-> ""]

\* A name that resolves to nothing in the workspace.
NoLayer == [kind |-> "none", fields |-> NoFields, rows |-> <<>>]

Exists(l) == l.kind # "none"

\* The result of an engine tool: the layer it wrote, or an ExecuteError.
Ok(l) == [ok |-> TRUE, layer |-> l]
Fail == [ok |-> FALSE, layer |-> NoLayer]

RECURSIVE SortedSeq(_)
SortedSeq(S) ==
    IF S = {} THEN <<>>
    ELSE LET m == CHOOSE x \in S : \A y \in S : x <= y
         IN <<m>> \o SortedSeq(S \ {m})

Indices(s, P(_)) == SortedSeq({i \in 1..Len(s) : P(s[i])})
Pick(s, P(_)) == LET ix == Indices(s, P) IN [k \in 1..Len(ix) |-> s[ix[k]]]

\* The engine never reuses a field name: a clash gets a numeric suffix.
UniqueName(fields, n) ==
    IF n \notin DOMAIN fields THEN n
    ELSE IF (n \o "_1") \notin DOMAIN fields THEN n \o "_1"
    ELSE n \o "_2"

-----------------------------------------------------------------------------
(* Geometry *)

Tolerance == 500        \* snap distance, in coordinate units
MetresPerKm == 1000     \* coordinate units in one KILOMETERS length unit

\* Kilometres of the line fg lying inside the strip pg.
Overlap(pg, fg) == Max2(0, Min2(pg.b, fg.b) - Max2(pg.a, fg.a))

\* Does a feature take part in the summary of polygon pg?  A line does
\* when a piece of positive length lies inside, a point-like footprint
\* when it lies inside.
Intersects(pg, fg, kind) ==
    IF kind = "line" THEN Overlap(pg, fg) > 0
    ELSE pg.a < fg.a /\ fg.a < pg.b

\* Attribute values of a line are apportioned by the share of its length
\* inside the polygon.
Portion(pg, fg, kind) ==
    IF kind = "line" THEN Frac(Overlap(pg, fg), fg.b - fg.a) ELSE IntV(1)

\* COMPLETELY_WITHIN: inside the polygon without touching its boundary.
CompletelyWithin(fg, pg) == pg.a < fg.a /\ fg.b < pg.b

\* Squared distance, in coordinate units, from a point to a line.
Dist2(pt, ln) ==
    LET cx == Max2(ln.a, Min2(pt.a, ln.b))
        dx == (pt.a - cx) * MetresPerKm
        dy == pt.y - ln.y
    IN dx * dx + dy * dy

NearestOn(pt, ln) ==
    LET cx == Max2(ln.a, Min2(pt.a, ln.b)) IN [a |-> cx, b |-> cx, y |-> ln.y]

-----------------------------------------------------------------------------
(* Engine tools, as functions on layers *)

ShapeSumName(kind) ==
    IF kind = "line" THEN "sum_Length_KILOMETERS" ELSE "sum_Area_SQUAREKILOMETERS"

CountName(kind) ==
    CASE kind = "line" -> "Polyline_Count"
      [] kind = "polygon" -> "Polygon_Count"
      [] OTHER -> "Point_Count"

\* arcpy.analysis.SummarizeWithin(in_polygons, in_sum_features, out,
\*     keep_all_polygons, sum_fields, sum_shape, shape_unit)
SummarizeWithin(polys, feats, keep_all, sum_fields, sum_shape) ==
    IF \/ polys.kind # "polygon"
       \/ ~Exists(feats)
       \/ \E k \in 1..Len(sum_fields) : sum_fields[k][1] \notin DOMAIN feats.fields
    THEN Fail
    ELSE
    LET kind == feats.kind
        statName(k) == UniqueName(polys.fields,
                           StatPrefix(sum_fields[k][2]) \o "_" \o sum_fields[k][1])
        shapeName == UniqueName(polys.fields, ShapeSumName(kind))
        countName == UniqueName(polys.fields, CountName(kind))
        hasShape == sum_shape = "ADD_SHAPE_SUM" /\ kind \in {"line", "polygon"}
        members(p) == Pick(feats.rows, LAMBDA r : Intersects(p.geom, r.geom, kind))
        contrib(p, f) ==
            LET m == members(p)
            IN [i \in 1..Len(m) |-> FMul(m[i].attr[f], Portion(p.geom, m[i].geom, kind))]
        shapeSum(p) ==
            LET m == members(p)
            IN IF kind = "line"
               THEN FSum([i \in 1..Len(m) |-> IntV(Overlap(p.geom, m[i].geom))])
               ELSE LET t == FSum([i \in 1..Len(m) |-> IntV(m[i].geom.area)])
                    IN Frac(t[1], MetresPerKm * MetresPerKm)
        newNames == {statName(k) : k \in 1..Len(sum_fields)}
                        \cup {countName}
                        \cup (IF hasShape THEN {shapeName} ELSE {})
        newAttr(p) ==
            [n \in newNames |->
                IF n = countName THEN IntV(Len(members(p)))
                ELSE IF hasShape /\ n = shapeName THEN shapeSum(p)
                ELSE LET k == CHOOSE j \in 1..Len(sum_fields) : statName(j) = n
                     IN Statistic(sum_fields[k][2], contrib(p, sum_fields[k][1]))]
        newAlias(n) ==
            IF n = countName THEN "Count of " \o kind
            ELSE IF hasShape /\ n = shapeName THEN "Summarized " \o kind
            ELSE LET k == CHOOSE j \in 1..Len(sum_fields) : statName(j) = n
                 IN sum_fields[k][2] \o " " \o sum_fields[k][1]
        kept == IF keep_all = "KEEP_ALL" THEN polys.rows
                ELSE Pick(polys.rows, LAMBDA p : Len(members(p)) > 0)
    IN Ok([kind |-> "polygon",
           fields |-> [n \in newNames |-> newAlias(n)] @@ polys.fields,
           rows |-> [i \in 1..Len(kept) |->
                        [geom |-> kept[i].geom,
                         attr |-> newAttr(kept[i]) @@ kept[i].attr]]])

\* arcpy.management.AddField(in_table, field_name, "DOUBLE")
AddField(l, name) ==
    IF ~Exists(l) \/ name \in DOMAIN l.fields THEN Fail
    ELSE Ok([l EXCEPT !.fields = (name :> name) @@ l.fields,
                      !.rows = [i \in 1..Len(l.rows) |->
                                  [l.rows[i] EXCEPT !.attr = (name :> Null) @@ l.rows[i].attr]]])

\* arcpy.management.CalculateField(in_table, field, "!num!/!den!", "PYTHON3"):
\* Python's true division, evaluated row by row.  A zero divisor raises
\* ZeroDivisionError and a null operand raises TypeError; either makes the
\* tool fail.
CalculateField(l, field, expr) ==
    IF \/ ~Exists(l)
       \/ {field, expr.num, expr.den} \ DOMAIN l.fields # {}
       \/ \E i \in 1..Len(l.rows) :
             \/ IsNull(l.rows[i].attr[expr.num])
             \/ IsNull(l.rows[i].attr[expr.den])
             \/ l.rows[i].attr[expr.den][1] = 0
    THEN Fail
    ELSE Ok([l EXCEPT !.rows = [i \in 1..Len(l.rows) |->
                [l.rows[i] EXCEPT !.attr[field] =
                    LET n == l.rows[i].attr[expr.num]
                        d == l.rows[i].attr[expr.den]
                    IN Frac(n[1] * d[2], n[2] * d[1])]]])

\* arcpy.management.FeatureToPoint(in_features, out, "CENTROID")
FeatureToPoint(l) ==
    IF ~Exists(l) THEN Fail
    ELSE Ok([kind |-> "point",
             fields |-> ("ORIG_FID" :> "ORIG_FID") @@ l.fields,
             rows |-> [i \in 1..Len(l.rows) |->
                        [geom |-> [l.rows[i].geom EXCEPT !.area = 0],
                         attr |-> ("ORIG_FID" :> IntV(i)) @@ l.rows[i].attr]]])

\* arcpy.edit.Snap(in_features, "<layer> EDGE '<distance> Unknown'"): each
\* feature within the distance of an edge of the snap layer moves onto the
\* nearest point of that edge; the others stay.
Snap(l, target, distance) ==
    IF ~Exists(l) \/ target.kind # "line" THEN Fail
    ELSE
    LET moved(g) ==
            LET near == {k \in 1..Len(target.rows) :
                            Dist2(g, target.rows[k].geom) <= distance * distance}
            IN IF near = {} THEN g
               ELSE LET k == CHOOSE j \in near : \A m \in near :
                                  Dist2(g, target.rows[j].geom) <= Dist2(g, target.rows[m].geom)
                        n == NearestOn(g, target.rows[k].geom)
                    IN [g EXCEPT !.a = n.a, !.b = n.b, !.y = n.y]
    IN Ok([l EXCEPT !.rows = [i \in 1..Len(l.rows) |->
                                [l.rows[i] EXCEPT !.geom = moved(l.rows[i].geom)]]])

\* The pieces of one line cut at the sorted positions cuts.
RECURSIVE Pieces(_, _)
Pieces(row, cuts) ==
    IF cuts = <<>> THEN <<row>>
    ELSE <<[row EXCEPT !.geom.b = Head(cuts)]>>
            \o Pieces([row EXCEPT !.geom.a = Head(cuts)], Tail(cuts))

RECURSIVE Flatten(_)
Flatten(ss) == IF ss = <<>> THEN <<>> ELSE Head(ss) \o Flatten(Tail(ss))

\* arcpy.management.SplitLineAtPoint(in_features, point_features, out,
\* "1 Feet"): a line is cut at every point lying on it (the search radius is
\* below the grid of the model) strictly between its ends.
SplitLineAtPoint(lines, points) ==
    IF lines.kind # "line" \/ points.kind # "point" THEN Fail
    ELSE
    LET cuts(g) == SortedSeq({points.rows[i].geom.a : i \in
                      {j \in 1..Len(points.rows) :
                          /\ points.rows[j].geom.y = g.y
                          /\ g.a < points.rows[j].geom.a
                          /\ points.rows[j].geom.a < g.b}})
    IN Ok([lines EXCEPT !.rows =
              Flatten([i \in 1..Len(lines.rows) |->
                          Pieces(lines.rows[i], cuts(lines.rows[i].geom))])])

\* arcpy.management.CalculateGeometryAttributes(in_features,
\*     [[field, "LENGTH"]], "KILOMETERS")
CalculateGeometryAttributes(l, field) ==
    IF l.kind # "line" \/ field \notin DOMAIN l.fields THEN Fail
    ELSE Ok([l EXCEPT !.rows = [i \in 1..Len(l.rows) |->
                [l.rows[i] EXCEPT !.attr[field] =
                    IntV(l.rows[i].geom.b - l.rows[i].geom.a)]]])

\* arcpy.management.MakeFeatureLayer(in_features, out_layer): a layer over
\* all the rows of the feature class.
MakeFeatureLayer(l) == IF ~Exists(l) THEN Fail ELSE Ok(l)

\* arcpy.management.SelectLayerByLocation(layer, overlap_type,
\*     select_features, "", "NEW_SELECTION"): the layer keeps the rows that
\* stand in the relation to some selecting feature.
SelectLayerByLocation(l, overlap_type, sel) ==
    IF ~Exists(l) \/ ~Exists(sel) THEN Fail
    ELSE
    LET hit(r) == \E k \in 1..Len(sel.rows) :
                     IF overlap_type = "COMPLETELY_WITHIN"
                     THEN CompletelyWithin(r.geom, sel.rows[k].geom)
                     ELSE Intersects(sel.rows[k].geom, r.geom, l.kind)
    IN Ok([l EXCEPT !.rows = Pick(l.rows, hit)])

\* arcpy.analysis.Select(in_features, out): copies the selected rows.
Select(l) == IF ~Exists(l) THEN Fail ELSE Ok(l)

\* arcpy.management.AlterField(in_table, field, new_field_name, new_field_alias)
AlterField(l, field, new_name, alias) ==
    IF \/ ~Exists(l)
       \/ field \notin DOMAIN l.fields
       \/ (new_name # field /\ new_name \in DOMAIN l.fields)
    THEN Fail
    ELSE
    LET names == (DOMAIN l.fields \ {field}) \cup {new_name}
        old(n) == IF n = new_name THEN field ELSE n
    IN Ok([l EXCEPT !.fields = [n \in names |-> IF n = new_name THEN alias ELSE l.fields[n]],
                    !.rows = [i \in 1..Len(l.rows) |->
                                [l.rows[i] EXCEPT !.attr = [n \in names |-> l.rows[i].attr[old(n)]]]]])

\* arcpy.management.DeleteField(in_table, drop_field)
DeleteField(l, drop) ==
    IF ~Exists(l) \/ \E k \in 1..Len(drop) : drop[k] \notin DOMAIN l.fields THEN Fail
    ELSE
    LET names == DOMAIN l.fields \ {drop[k] : k \in 1..Len(drop)}
    IN Ok([l EXCEPT !.fields = [n \in names |-> l.fields[n]],
                    !.rows = [i \in 1..Len(l.rows) |->
                                [l.rows[i] EXCEPT !.attr = [n \in names |-> l.rows[i].attr[n]]]]])

-----------------------------------------------------------------------------
(* get_sows_stats: names and literals of the script *)

\* The script with line 16 left out: the engine default.
overwriteOutput_off == FALSE

overwriteOutput == TRUE

sows_cent == "sows_centroids"
shore_spl == "shoreline_split"
shore_spl_lyr == "shoreline_lyr"
shore_spl_sel == "shorelines_split_select"
out_fc_1 == poly_name \o "_sum1"
out_fc_2 == poly_name \o "_sum2"
out_fc_3 == poly_name \o "_SOWS_Stats"

\* The other value of the keep_all_polygons parameter.
keep_all_polygons_only_intersecting == "ONLY_INTERSECTING"

keep_all_polygons == "KEEP_ALL"
area_sum_fields == << <<"Area_M", "Mean">>, <<"Area_M", "Sum">>, <<"Area_M", "Min">>,
                      <<"Area_M", "Max">>, <<"Area_M", "Stddev">> >>
dist_sum_fields == << <<"sows_dist_km", "Mean">>, <<"sows_dist_km", "Sum">>,
                      <<"sows_dist_km", "Min">>, <<"sows_dist_km", "Max">>,
                      <<"sows_dist_km", "Stddev">> >>
density_expr == [num |-> "Polygon_Count", den |-> "sum_Length_KILOMETERS"]
snap_environment == [layer |-> "noaa_shoreline_diss", type |-> "EDGE", distance |-> Tolerance]
\* Snap applied to the structures themselves instead of their centroids.
snap_in_features_sows_fc == args.sows_fc

snap_in_features == sows_cent
overlap_type == "COMPLETELY_WITHIN"
\* The delete list without the shoreline count of the second summary.
drop_fields_short == <<"Polyline_Count_1", "sum_Length_KILOMETERS_1",
                       "sum_Area_SQUAREKILOMETERS">>

drop_fields == <<"Polyline_Count_1", "sum_Length_KILOMETERS_1",
                 "sum_Area_SQUAREKILOMETERS", "Polyline_Count">>
area_fields == << <<"mean_Area_M", "mean_sows_Area_M", "Mean SOWS Area (m)">>,
                  <<"sum_Area_M", "sum_sows_Area_M", "Sum SOWS Area (m)">>,
                  <<"min_Area_M", "min_sows_Area_M", "Min SOWS Area (m)">>,
                  <<"max_Area_M", "max_sows_Area_M", "Max SOWS Area (m)">>,
                  <<"std_Area_M", "std_sows_Area_M", "Standard Deviation SOWS Area (m)">> >>
spacing_fields == << <<"mean_sows_dist_km", "Mean SOWS Spacing (km)">>,
                     <<"sum_sows_dist_km", "Sum SOWS Spacing (km)">>,
                     <<"min_sows_dist_km", "Min SOWS Spacing (km)">>,
                     <<"max_sows_dist_km", "Max SOWS Spacing (km)">>,
                     <<"std_sows_dist_km", "Standard Deviation SOWS Spacing (km)">> >>

\* The caller's layers (the __main__ block), and a second shoreline layer a
\* caller may pass instead; it runs 900 units off the x axis.
counties == "Counties_StatePlane"
sows_name == "NOAA_SOWS_Filtered_v3"
noaa_shoreline == "noaa_shoreline_diss"
alt_shoreline == "shoreline_alt"

InputNames == {counties, sows_name, noaa_shoreline, alt_shoreline}
DiskDerived == {counties \o "_sum1", counties \o "_sum2", counties \o "_SOWS_Stats",
                sows_cent, shore_spl, shore_spl_sel}
DerivedNames == DiskDerived \cup {shore_spl_lyr}
LayerNames == InputNames \cup DerivedNames

-----------------------------------------------------------------------------
(* The workspaces a run can start from *)

\* Candidate regions: strip i covers 4(i-1) < x < 4i; region 0 lies across
\* the boundary of strips 1 and 2, overlapping both.
Strip(i) ==
    IF i = 0 THEN [a |-> 2, b |-> 6, y |-> 0, area |-> 0]
    ELSE [a |-> 4 * (i - 1), b |-> 4 * i, y |-> 0, area |-> 0]

\* A polygon layer of some of the candidate regions, in index order.
RegionLayer(S) ==
    LET ix == SortedSeq(S)
    IN [kind |-> "polygon",
        fields |-> ("NAME" :> "NAME"),
        rows |-> [k \in 1..Len(ix) |->
                    [geom |-> Strip(ix[k]), attr |-> ("NAME" :> IntV(ix[k]))]]]

\* Candidate structures: a site in the middle of each strip, 300 units off
\* the x axis, and one more in strip 1, 600 units off; the footprint area
\* grows with the offset.
SowsSites == {<<i, 300>> : i \in 1..NumStrips} \cup {<<1, 600>>}
SiteKey(s) == 10 * s[1] + (s[2] \div 300)
SiteRow(s) ==
    LET area == 10 * s[1] + (s[2] \div 100)
    IN [geom |-> [a |-> 4 * s[1] - 2, b |-> 4 * s[1] - 2, y |-> s[2], area |-> area],
        attr |-> ("Area_M" :> IntV(area))]

SowsLayer(S) ==
    LET keys == SortedSeq({SiteKey(s) : s \in S})
        site(k) == CHOOSE s \in S : SiteKey(s) = k
    IN [kind |-> "polygon",
        fields |-> ("Area_M" :> "Area_M"),
        rows |-> [k \in 1..Len(keys) |-> SiteRow(site(keys[k]))]]

\* A shoreline layer: a single line from x = 1 to x = hi at offset y.
ShoreLayer(hi, y) ==
    [kind |-> "line",
     fields |-> ("FID" :> "FID"),
     rows |-> << [geom |-> [a |-> 1, b |-> hi, y |-> y, area |-> 0],
                  attr |-> ("FID" :> IntV(1))] >>]

\* What an earlier session left under a derived name.
StaleLayer == [kind |-> "polygon", fields |-> ("NAME" :> "stale"), rows |-> <<>>]

\* The derived names at the start: free, or holding what an earlier session
\* left, or free with one of them locked by another application.
Environments ==
    {[debris |-> d, locked |-> {}] : d \in BOOLEAN}
        \cup {[debris |-> FALSE, locked |-> {n}] : n \in DiskDerived}

NoPrev == [ws |-> <<>>, pc |-> "", out |-> <<>>, calls |-> <<>>]

InitExport ==
    /\ gdb = [exists |-> TRUE, feature_classes |-> <<>>, tables |-> <<>>]
    /\ folder = [exists |-> TRUE, files |-> {}]
    /\ folder0 = folder
    /\ bpc = "idle"
    /\ items = <<>>
    /\ exported = <<>>
    /\ bout = <<>>

Init ==
    /\ \E regions \in SUBSET (0..NumStrips) \ {{}},
          sites \in {S \in SUBSET SowsSites : Cardinality(S) <= MaxSows},
          hi \in {4 * i - 1 : i \in 1..NumStrips},
          present \in SUBSET {counties, sows_name, noaa_shoreline},
          env \in Environments :
          /\ ws = [n \in LayerNames |->
                  CASE n = counties ->
                         IF n \in present THEN RegionLayer(regions) ELSE NoLayer
                    [] n = sows_name ->
                         IF n \in present THEN SowsLayer(sites) ELSE NoLayer
                    [] n = noaa_shoreline ->
                         IF n \in present THEN ShoreLayer(hi, 0) ELSE NoLayer
                    [] n = alt_shoreline -> ShoreLayer(hi, 900)
                    [] OTHER -> IF env.debris THEN StaleLayer ELSE NoLayer]
          /\ locked = env.locked
    /\ args \in [summary_polygons : {counties}, sows_fc : {sows_name},
                 shoreline_fc : {noaa_shoreline, alt_shoreline}]
    /\ pc = "Describe"
    /\ idx = 1
    /\ poly_name = ""
    /\ out = <<>>
    /\ calls = <<>>
    /\ run = "first"
    /\ prev = NoPrev
    /\ InitExport

-----------------------------------------------------------------------------
(* get_sows_stats, one action per call of the script *)

\* The layer a name resolves to.
Layer(n) == IF n \in LayerNames THEN ws[n] ELSE NoLayer

\* A tool may write a new output unless the name is locked, or is taken
\* while overwriteOutput is off; it may edit in place unless the name is
\* locked.
CanCreate(n) == n \in LayerNames /\ n \notin locked /\ (overwriteOutput \/ ~Exists(ws[n]))
CanEdit(n) == n \in LayerNames /\ n \notin locked
Creating(n, res) == IF CanCreate(n) THEN res ELSE Fail
Editing(n, res) == IF CanEdit(n) THEN res ELSE Fail

\* A handler around each call instead of around the pipeline: the next call
\* runs whatever the outcome.
NextPc_per_call(ok, nxt) == nxt

\* try: ... except Exception: an engine call that raises sends control to
\* the handler; the function then returns.
NextPc(ok, nxt) == IF ok THEN nxt ELSE "handled"

\* One engine call inside the try block, writing target.
Call(tool, target, src, res, nxt) ==
    /\ calls' = Append(calls, [step |-> pc, tool |-> tool, target |-> target,
                               src |-> src, ok |-> res.ok])
    /\ ws' = IF res.ok THEN [ws EXCEPT ![target] = res.layer] ELSE ws
    /\ pc' = NextPc(res.ok, nxt)
    /\ out' = IF res.ok THEN out ELSE Append(out, "Processing error: ")
    /\ UNCHANGED <<locked, args, poly_name, run, prev, bvars>>

\* Lines 35-38, outside the try block: an input that does not resolve
\* raises out of the function.
Describe ==
    /\ pc = "Describe"
    /\ IF Exists(Layer(args.summary_polygons)) /\ Exists(Layer(args.sows_fc))
       THEN /\ poly_name' = args.summary_polygons
            /\ out' = Append(out, "Calculating statistics for " \o args.sows_fc
                                     \o " within " \o args.summary_polygons)
            /\ pc' = "Sum1"
       ELSE /\ pc' = "raised"
            /\ UNCHANGED <<poly_name, out>>
    /\ UNCHANGED <<ws, locked, args, idx, calls, run, prev, bvars>>

Sum1 ==
    /\ pc = "Sum1"
    /\ Call("SummarizeWithin", out_fc_1, <<args.summary_polygons, args.sows_fc>>,
            Creating(out_fc_1,
                SummarizeWithin(Layer(args.summary_polygons), Layer(args.sows_fc),
                                keep_all_polygons, area_sum_fields, "ADD_SHAPE_SUM")),
            "Sum2")
    /\ UNCHANGED idx

Sum2 ==
    /\ pc = "Sum2"
    /\ Call("SummarizeWithin", out_fc_2, <<out_fc_1, args.shoreline_fc>>,
            Creating(out_fc_2,
                SummarizeWithin(Layer(out_fc_1), Layer(args.shoreline_fc),
                                "KEEP_ALL", <<>>, "ADD_SHAPE_SUM")),
            "AddDensity")
    /\ UNCHANGED idx

AddDensity ==
    /\ pc = "AddDensity"
    /\ Call("AddField", out_fc_2, <<out_fc_2>>,
            Editing(out_fc_2, AddField(Layer(out_fc_2), "density_sows_km")),
            "CalcDensity")
    /\ UNCHANGED idx

CalcDensity ==
    /\ pc = "CalcDensity"
    /\ Call("CalculateField", out_fc_2, <<out_fc_2>>,
            Editing(out_fc_2, CalculateField(Layer(out_fc_2), "density_sows_km", density_expr)),
            "Centroids")
    /\ UNCHANGED idx

Centroids ==
    /\ pc = "Centroids"
    /\ Call("FeatureToPoint", sows_cent, <<args.sows_fc>>,
            Creating(sows_cent, FeatureToPoint(Layer(args.sows_fc))),
            "Snap")
    /\ UNCHANGED idx

SnapStep ==
    /\ pc = "Snap"
    /\ Call("Snap", snap_in_features, <<snap_in_features, snap_environment.layer>>,
            Editing(snap_in_features,
                Snap(Layer(snap_in_features), Layer(snap_environment.layer),
                     snap_environment.distance)),
            "Split")
    /\ UNCHANGED idx

Split ==
    /\ pc = "Split"
    /\ Call("SplitLineAtPoint", shore_spl, <<args.shoreline_fc, sows_cent>>,
            Creating(shore_spl, SplitLineAtPoint(Layer(args.shoreline_fc), Layer(sows_cent))),
            "AddDist")
    /\ UNCHANGED idx

AddDist ==
    /\ pc = "AddDist"
    /\ Call("AddField", shore_spl, <<shore_spl>>,
            Editing(shore_spl, AddField(Layer(shore_spl), "sows_dist_km")),
            "CalcLength")
    /\ UNCHANGED idx

CalcLength ==
    /\ pc = "CalcLength"
    /\ Call("CalculateGeometryAttributes", shore_spl, <<shore_spl>>,
            Editing(shore_spl, CalculateGeometryAttributes(Layer(shore_spl), "sows_dist_km")),
            "MakeLayer")
    /\ UNCHANGED idx

MakeLayer ==
    /\ pc = "MakeLayer"
    /\ Call("MakeFeatureLayer", shore_spl_lyr, <<shore_spl>>,
            Creating(shore_spl_lyr, MakeFeatureLayer(Layer(shore_spl))),
            "SelectByLocation")
    /\ UNCHANGED idx

SelectByLocation ==
    /\ pc = "SelectByLocation"
    /\ Call("SelectLayerByLocation", shore_spl_lyr, <<shore_spl_lyr, args.summary_polygons>>,
            Editing(shore_spl_lyr,
                SelectLayerByLocation(Layer(shore_spl_lyr), overlap_type,
                                      Layer(args.summary_polygons))),
            "CopySelected")
    /\ UNCHANGED idx

CopySelected ==
    /\ pc = "CopySelected"
    /\ Call("Select", shore_spl_sel, <<shore_spl_lyr>>,
            Creating(shore_spl_sel, Select(Layer(shore_spl_lyr))),
            "Sum3")
    /\ UNCHANGED idx

Sum3 ==
    /\ pc = "Sum3"
    /\ Call("SummarizeWithin", out_fc_3, <<out_fc_2, shore_spl_sel>>,
            Creating(out_fc_3,
                SummarizeWithin(Layer(out_fc_2), Layer(shore_spl_sel),
                                "KEEP_ALL", dist_sum_fields, "ADD_SHAPE_SUM")),
            "RenameCount")
    /\ UNCHANGED idx

RenameCount ==
    /\ pc = "RenameCount"
    /\ Call("AlterField", out_fc_3, <<out_fc_3>>,
            Editing(out_fc_3,
                AlterField(Layer(out_fc_3), "Polygon_Count", "sows_count", "Count of SOWS")),
            "RenameShoreline")
    /\ UNCHANGED idx

RenameShoreline ==
    /\ pc = "RenameShoreline"
    /\ Call("AlterField", out_fc_3, <<out_fc_3>>,
            Editing(out_fc_3,
                AlterField(Layer(out_fc_3), "sum_Length_KILOMETERS", "total_shoreline_km",
                           "Total Shoreline (km)")),
            "AliasDensity")
    /\ UNCHANGED idx

AliasDensity ==
    /\ pc = "AliasDensity"
    /\ Call("AlterField", out_fc_3, <<out_fc_3>>,
            Editing(out_fc_3,
                AlterField(Layer(out_fc_3), "density_sows_km", "density_sows_km",
                           "SOWS Density (count/km)")),
            "DeleteExtra")
    /\ UNCHANGED idx

DeleteExtra ==
    /\ pc = "DeleteExtra"
    /\ Call("DeleteField", out_fc_3, <<out_fc_3>>,
            Editing(out_fc_3, DeleteField(Layer(out_fc_3), drop_fields)),
            "AreaFields")
    /\ UNCHANGED idx

\* for old_field, new_field, alias in area_fields: one iteration
AreaFields ==
    /\ pc = "AreaFields"
    /\ Call("AlterField", out_fc_3, <<out_fc_3>>,
            Editing(out_fc_3,
                AlterField(Layer(out_fc_3), area_fields[idx][1], area_fields[idx][2],
                           area_fields[idx][3])),
            IF idx < Len(area_fields) THEN "AreaFields" ELSE "SpacingFields")
    /\ idx' = IF idx < Len(area_fields) THEN idx + 1 ELSE 1

\* for field, alias in spacing_fields: one iteration
SpacingFields ==
    /\ pc = "SpacingFields"
    /\ Call("AlterField", out_fc_3, <<out_fc_3>>,
            Editing(out_fc_3,
                AlterField(Layer(out_fc_3), spacing_fields[idx][1], spacing_fields[idx][1],
                           spacing_fields[idx][2])),
            IF idx < Len(spacing_fields) THEN "SpacingFields" ELSE "Complete")
    /\ idx' = IF idx < Len(spacing_fields) THEN idx + 1 ELSE 1

\* The two closing prints; the function returns.
Complete ==
    /\ pc = "Complete"
    /\ out' = out \o <<"Analysis for count, size, spacing, and density of SOWS within "
                          \o poly_name \o " complete!",
                       "Results: " \o out_fc_3>>
    /\ pc' = "done"
    /\ UNCHANGED <<ws, locked, args, idx, poly_name, calls, run, prev, bvars>>

Returned == pc \in {"done", "handled", "raised"}

\* The caller invokes get_sows_stats again with the same arguments on the
\* workspace the first invocation left.
Rerun ==
    /\ Returned
    /\ run = "first"
    /\ run' = "second"
    /\ prev' = [ws |-> ws, pc |-> pc, out |-> out, calls |-> calls]
    /\ pc' = "Describe"
    /\ idx' = 1
    /\ poly_name' = ""
    /\ out' = <<>>
    /\ calls' = <<>>
    /\ UNCHANGED <<ws, locked, args, bvars>>

Next ==
    \/ Describe
    \/ Sum1
    \/ Sum2
    \/ AddDensity
    \/ CalcDensity
    \/ Centroids
    \/ SnapStep
    \/ Split
    \/ AddDist
    \/ CalcLength
    \/ MakeLayer
    \/ SelectByLocation
    \/ CopySelected
    \/ Sum3
    \/ RenameCount
    \/ RenameShoreline
    \/ AliasDensity
    \/ DeleteExtra
    \/ AreaFields
    \/ SpacingFields
    \/ Complete
    \/ Rerun

Spec == Init /\ [][Next]_vars

-----------------------------------------------------------------------------
(* batch_export_to_csvs.py *)

FcName(i) == "fc_" \o ToString(i)
TableName(i) == "table_" \o ToString(i)

\* arcpy.ListFeatureClasses() / arcpy.ListTables(): the names in the
\* workspace, or nothing (a falsy value) when the workspace does not exist.
ListFeatureClasses == IF gdb.exists THEN gdb.feature_classes ELSE <<>>
ListTables == IF gdb.exists THEN gdb.tables ELSE <<>>

\* The loop over the feature classes alone.
ItemsToExport_no_tables(feature_classes, tables) == feature_classes

\* for item in feature_classes + tables
ItemsToExport(feature_classes, tables) == feature_classes \o tables

\* if not feature_classes and not tables
NoData(feature_classes, tables) == feature_classes = <<>> /\ tables = <<>>

\* f"{item}.csv"
CsvName(item) == item \o ".csv"

\* arcpy.conversion.TableToTable(in_rows, out_path, out_name): writes
\* out_name into out_path; fails when the folder is missing or, overwrite
\* being off in this script, when the file is already there.
TableToTable(item, out_folder, out_name) ==
    IF ~out_folder.exists \/ out_name \in out_folder.files
    THEN [ok |-> FALSE, folder |-> out_folder]
    ELSE [ok |-> TRUE, folder |-> [out_folder EXCEPT !.files = @ \cup {out_name}]]

IdlePipeline ==
    /\ ws = [n \in LayerNames |-> NoLayer]
    /\ locked = {}
    /\ args = [summary_polygons |-> counties, sows_fc |-> sows_name,
               shoreline_fc |-> noaa_shoreline]
    /\ pc = "idle"
    /\ idx = 1
    /\ poly_name = ""
    /\ out = <<>>
    /\ calls = <<>>
    /\ run = "first"
    /\ prev = NoPrev

BInit ==
    /\ IdlePipeline
    /\ \E F \in SUBSET (1..MaxDatasets), T \in SUBSET (1..MaxDatasets), e \in BOOLEAN :
          LET fi == SortedSeq(F)
              ti == SortedSeq(T)
          IN gdb = [exists |-> e,
                    feature_classes |-> [k \in 1..Len(fi) |-> FcName(fi[k])],
                    tables |-> [k \in 1..Len(ti) |-> TableName(ti[k])]]
    /\ folder \in [exists : BOOLEAN,
                   files : {{}, {"readme.txt"}, {CsvName(FcName(1))},
                            {CsvName(TableName(MaxDatasets))}}]
    /\ folder0 = folder
    /\ bpc = "List"
    /\ items = <<>>
    /\ exported = <<>>
    /\ bout = <<>>

\* Lines 7-18: bind the workspace, list it, and branch.
List ==
    /\ bpc = "List"
    /\ IF NoData(ListFeatureClasses, ListTables)
       THEN /\ bout' = Append(bout, "No data found in geodatabase.")
            /\ bpc' = "done"
            /\ items' = <<>>
       ELSE /\ items' = ItemsToExport(ListFeatureClasses, ListTables)
            /\ bpc' = "Export"
            /\ bout' = bout
    /\ UNCHANGED <<gdb, folder, folder0, exported, pvars>>

\* Lines 19-22: one iteration of the loop.  A failing export raises into
\* the handler of line 25, which prints and ends the script.
ExportItem ==
    /\ bpc = "Export"
    /\ items # <<>>
    /\ LET item == Head(items)
           res == TableToTable(item, folder, CsvName(item))
       IN /\ exported' = Append(exported, [item |-> item, out_name |-> CsvName(item),
                                           ok |-> res.ok])
          /\ folder' = res.folder
          /\ IF res.ok
             THEN /\ bout' = Append(bout, "Exporting " \o item)
                  /\ items' = Tail(items)
                  /\ bpc' = "Export"
             ELSE /\ bout' = bout \o <<"Exporting " \o item, "Error occurred:">>
                  /\ items' = items
                  /\ bpc' = "handled"
    /\ UNCHANGED <<gdb, folder0, pvars>>

\* Line 23: the loop is over.
Finish ==
    /\ bpc = "Export"
    /\ items = <<>>
    /\ bout' = Append(bout, "Export completed.")
    /\ bpc' = "done"
    /\ UNCHANGED <<gdb, folder, folder0, items, exported, pvars>>

BNext ==
    \/ List
    \/ ExportItem
    \/ Finish

SpecExport == BInit /\ [][BNext]_vars

-----------------------------------------------------------------------------
(* Properties *)

SummaryLayer == ws[args.summary_polygons]
StatsLayer == ws[out_fc_3]
Succeeded(step) == \E i \in 1..Len(calls) : calls[i].step = step /\ calls[i].ok
RowsOf(l) == {l.rows[i] : i \in 1..Len(l.rows)}

\* Row i of l is row i of the summary polygons: same geometry, same NAME.
RowsMatch(l, polys) ==
    /\ Len(l.rows) = Len(polys.rows)
    /\ \A i \in 1..Len(polys.rows) :
          /\ l.rows[i].geom = polys.rows[i].geom
          /\ l.rows[i].attr["NAME"] = polys.rows[i].attr["NAME"]

\* C1: every layer a SummarizeWithin call of this invocation has written
\* (<name>_sum1, <name>_sum2, <name>_SOWS_Stats; all three after a
\* successful run) has exactly one row per row of summary_polygons, in the
\* same order, whatever the regions intersect.
C1_KeepAllRows ==
    \A i \in 1..Len(calls) :
        (calls[i].tool = "SummarizeWithin" /\ calls[i].ok)
            => RowsMatch(ws[calls[i].target], SummaryLayer)

\* A successful run over several regions, one of which holds no structure:
\* its row is there with count 0 and null area aggregates.
C1_Witness ==
    /\ pc = "done"
    /\ Len(SummaryLayer.rows) > 1
    /\ \E r \in RowsOf(StatsLayer) :
          /\ r.attr["sows_count"] = IntV(0)
          /\ IsNull(r.attr["mean_sows_Area_M"])
    /\ \E r \in RowsOf(StatsLayer) : r.attr["sows_count"] # IntV(0)

C2_RatioWhenDone ==
    pc = "done" =>
        \A r \in RowsOf(StatsLayer) :
            LET n == r.attr["sows_count"]
                d == r.attr["total_shoreline_km"]
            IN /\ d[1] > 0
               /\ r.attr["density_sows_km"] = Frac(n[1] * d[2], n[2] * d[1])

\* C3: no error raised while get_sows_stats runs propagates to the caller.
C3_ErrorsContained == pc # "raised"

\* The spacing statistics of row r are those of the segments of the split
\* shoreline that lie completely within r.
SpacingOfContained(r) ==
    LET segs == Pick(ws[shore_spl].rows, LAMBDA sg : CompletelyWithin(sg.geom, r.geom))
        lens == [k \in 1..Len(segs) |-> IntV(segs[k].geom.b - segs[k].geom.a)]
    IN /\ r.attr["sum_sows_dist_km"] = Statistic("Sum", lens)
       /\ r.attr["mean_sows_dist_km"] = Statistic("Mean", lens)
       /\ r.attr["min_sows_dist_km"] = Statistic("Min", lens)
       /\ r.attr["max_sows_dist_km"] = Statistic("Max", lens)

\* C5: the spacing statistics of a region are those of the split shoreline
\* segments lying completely within that region; a segment that crosses the
\* region's boundary adds nothing to it.
C5_ContainmentFilter ==
    Succeeded("Sum3") => \A r \in RowsOf(StatsLayer) : SpacingOfContained(r)

\* What the code keeps of C5: the same, over regions that do not overlap.
C5_DisjointRegions ==
    (/\ Succeeded("Sum3")
     /\ \A r1, r2 \in RowsOf(SummaryLayer) :
            r1 # r2 => Overlap(r1.geom, r2.geom) = 0)
        => \A r \in RowsOf(StatsLayer) : SpacingOfContained(r)

\* C6: after a successful run the result has every semantic field with its
\* documented alias and none of the raw engine-generated names.
C6_FieldsNormalised ==
    pc = "done" =>
        LET f == StatsLayer.fields
            documented ==
                << <<"sows_count", "Count of SOWS">>,
                   <<"total_shoreline_km", "Total Shoreline (km)">>,
                   <<"density_sows_km", "SOWS Density (count/km)">>,
                   <<"mean_sows_Area_M", "Mean SOWS Area (m)">>,
                   <<"sum_sows_Area_M", "Sum SOWS Area (m)">>,
                   <<"min_sows_Area_M", "Min SOWS Area (m)">>,
                   <<"max_sows_Area_M", "Max SOWS Area (m)">>,
                   <<"std_sows_Area_M", "Standard Deviation SOWS Area (m)">>,
                   <<"mean_sows_dist_km", "Mean SOWS Spacing (km)">>,
                   <<"sum_sows_dist_km", "Sum SOWS Spacing (km)">>,
                   <<"min_sows_dist_km", "Min SOWS Spacing (km)">>,
                   <<"max_sows_dist_km", "Max SOWS Spacing (km)">>,
                   <<"std_sows_dist_km", "Standard Deviation SOWS Spacing (km)">> >>
            raw == {"Polygon_Count", "sum_Length_KILOMETERS", "Polyline_Count",
                    "Polyline_Count_1", "sum_Length_KILOMETERS_1",
                    "sum_Area_SQUAREKILOMETERS", "mean_Area_M", "sum_Area_M",
                    "min_Area_M", "max_Area_M", "std_Area_M"}
        IN /\ \A k \in 1..Len(documented) :
                 /\ documented[k][1] \in DOMAIN f
                 /\ f[documented[k][1]] = documented[k][2]
           /\ raw \cap DOMAIN f = {}
           /\ \A r \in RowsOf(StatsLayer) : DOMAIN r.attr = DOMAIN f

\* A finished run whose result has rows.
C6_Witness == pc = "done" /\ StatsLayer.rows # <<>>

\* C7: a second invocation with the same arguments on unchanged inputs ends
\* as the first did and leaves every layer of the workspace as the first
\* left it.
C7_Idempotent ==
    (run = "second" /\ Returned) =>
        /\ pc = prev.pc
        /\ ws = prev.ws
        /\ out = prev.out
        /\ calls = prev.calls

\* Both invocations ran to completion and left a result with rows.
C7_Witness ==
    /\ run = "second"
    /\ pc = "done"
    /\ prev.pc = "done"
    /\ StatsLayer.rows # <<>>

ArgLayers == {args.summary_polygons, args.sows_fc, args.shoreline_fc}

\* C8: no step changes a layer passed as an argument, and no engine call
\* of the pipeline writes to one.
C8_InputsImmutable ==
    [][/\ \A n \in ArgLayers : ws'[n] = ws[n]
       /\ \A i \in 1..Len(calls') : calls'[i].target \notin ArgLayers]_vars

\* A finished run in which Snap moved a centroid: the in-place edit
\* happened, on the derived centroid layer.
C8_Witness ==
    /\ pc = "done"
    /\ \E i \in 1..Len(ws[sows_cent].rows) :
          ws[sows_cent].rows[i].geom.y # ws[args.sows_fc].rows[i].geom.y

ExpectedTools ==
    <<"SummarizeWithin", "SummarizeWithin", "AddField", "CalculateField",
      "FeatureToPoint", "Snap", "SplitLineAtPoint", "AddField",
      "CalculateGeometryAttributes", "MakeFeatureLayer", "SelectLayerByLocation",
      "Select", "SummarizeWithin", "AlterField", "AlterField", "AlterField",
      "DeleteField", "AlterField", "AlterField", "AlterField", "AlterField",
      "AlterField", "AlterField", "AlterField", "AlterField", "AlterField",
      "AlterField">>

Completed(o) == \E k \in 1..Len(o) : o[k] = "Results: " \o out_fc_3

\* C9: the engine calls run in one fixed order, each at most once; after a
\* call that raised no further call is made in that invocation; the failing
\* call and the handler leave the workspace as it was; and the completion
\* message is printed only after every call succeeded.
C9_StopOnFirstFailure ==
    [][/\ Len(calls') <= Len(ExpectedTools)
       /\ \A i \in 1..Len(calls') : calls'[i].tool = ExpectedTools[i]
       /\ \A i \in 1..(Len(calls') - 1) : calls'[i].ok
       /\ (Len(calls') = Len(calls) + 1 /\ ~calls'[Len(calls')].ok)
             => (ws' = ws /\ pc' = "handled")
       /\ pc = "handled" => (ws' = ws /\ pc' = "Describe" /\ calls' = <<>>)
       /\ Completed(out')
             => (Len(calls') = Len(ExpectedTools)
                 /\ \A i \in 1..Len(calls') : calls'[i].ok)]_vars

\* A run stopped by a failing call after earlier calls had created layers,
\* which are still there.
C9_Witness ==
    /\ pc = "handled"
    /\ Len(calls) > 2
    /\ ~calls[Len(calls)].ok
    /\ \A i \in 1..2 : calls[i].ok /\ Exists(ws[calls[i].target])
    /\ ~Exists(ws[out_fc_3])

\* C10: the layer the centroids are snapped to is the shoreline_fc argument,
\* the layer that is then split.
C10_SnapTargetIsArgument ==
    \A i \in 1..Len(calls) :
        calls[i].tool = "Snap" => calls[i].src[2] = args.shoreline_fc

\* C4: a run that ends without an export failure has issued one export per
\* listed dataset, in listing order, has added exactly N+M files to the
\* output folder, each named <dataset>.csv, and has printed "Export
\* completed." last; over an empty workspace it exports nothing, adds
\* nothing and prints the no-data message only.
C4_ExportCount ==
    bpc = "done" =>
        LET fcs == ListFeatureClasses
            tbs == ListTables
            n == Len(fcs) + Len(tbs)
            listed == fcs \o tbs
            produced == folder.files \ folder0.files
        IN /\ folder0.files \subseteq folder.files
           /\ IF n > 0
              THEN /\ Len(exported) = n
                   /\ \A k \in 1..n : exported[k].ok /\ exported[k].item = listed[k]
                   /\ produced = {listed[k] \o ".csv" : k \in 1..n}
                   /\ Cardinality(produced) = n
                   /\ bout[Len(bout)] = "Export completed."
              ELSE /\ exported = <<>>
                   /\ produced = {}
                   /\ bout = <<"No data found in geodatabase.">>

\* A finished export of a workspace holding both feature classes and tables.
C4_Witness ==
    /\ bpc = "done"
    /\ Len(gdb.feature_classes) > 0
    /\ Len(gdb.tables) > 0
    /\ Len(exported) = Len(gdb.feature_classes) + Len(gdb.tables)

\* The batch half of C3: the script never ends by an uncaught exception.
C3_ExportErrorsCaught == bpc \in {"List", "Export", "done", "handled"}

====
